---------------------------- MODULE Spec2Model ----------------------------
(***************************************************************************)
(* Ehler's Super Smoother Filter (pandas_ta/overlap/ssf.py): the two       *)
(* kernels np_ssf and np_ssf_everget and the driver ssf.                   *)
(*                                                                         *)
(* Floats are fixed-point integers, SCALE units per 1.0, with NaN a value  *)
(* of its own.  Arrays live in a heap (a sequence of buffers) and are      *)
(* named by reference, so that np.copy, Series.shift (a new buffer) and    *)
(* fillna(inplace=True) (a write to an existing buffer) differ as they do  *)
(* in the program.  Array positions are Python's, counted from 0.          *)
(***************************************************************************)
EXTENDS Integers, Sequences, FiniteSets, TLC

----------------------------------------------------------------------------
(* Floating point samples *)

SCALE == 10^6

\* SCALE = Base^2: a fixed-point number is split into Base-sized parts
Base == 10^3

NaN == [nan |-> TRUE, v |-> 0]
F(v) == [nan |-> FALSE, v |-> v]

At(s, i) == s[i + 1]
Put(s, i, v) == [s EXCEPT ![i + 1] = v]

Abs(v) == IF v < 0 THEN -v ELSE v
Sign(v) == IF v < 0 THEN -1 ELSE 1

\* v / d rounded to the nearest integer, halves away from zero
Round(v, d) ==
    Sign(v) * Sign(d) * ((2 * Abs(v) + Abs(d)) \div (2 * Abs(d)))

\* the product of two non-negative fixed-point numbers, (p * q) / SCALE
\* rounded to nearest, computed from the high and low parts of p and q so
\* that no intermediate value is larger than the product
MulParts(ph, pl, qh, ql) ==
    ph * qh + (ph * ql + pl * qh + (2 * pl * ql + Base) \div (2 * Base)
               + Base \div 2) \div Base

MulSigned(p, q) ==
    Sign(p) * Sign(q) * MulParts(Abs(p) \div Base, Abs(p) % Base,
                                 Abs(q) \div Base, Abs(q) % Base)

\* (p and q are bound to their values once)
Mul(p, q) ==
    CHOOSE r \in {MulSigned(pp, qq) : pp \in {p}, qq \in {q}} : TRUE

\* coefficient (never NaN here) times sample
FScale(k, x) == IF x.nan THEN NaN ELSE F(Mul(k, x.v))
FAdd(x, y) == IF x.nan \/ y.nan THEN NaN ELSE F(x.v + y.v)
FSub(x, y) == IF x.nan \/ y.nan THEN NaN ELSE F(x.v - y.v)
FHalf(x) == IF x.nan THEN NaN ELSE F(Round(x.v, 2))

RECURSIVE ExpSeries(_, _, _, _)
ExpSeries(t, k, term, acc) ==
    IF term = 0 THEN acc
    ELSE ExpSeries(t, k + 1, Round(Mul(term, t), k), acc + term)

\* exp(t) = exp(t/2)^2 keeps the series' argument small
RECURSIVE np_exp(_)
np_exp(t) ==
    IF Abs(t) > SCALE THEN Mul(np_exp(Round(t, 2)), np_exp(t - Round(t, 2)))
    ELSE ExpSeries(t, 1, SCALE, 0)

RECURSIVE CosSeries(_, _, _, _)
CosSeries(t, k, term, acc) ==
    IF term = 0 THEN acc
    ELSE CosSeries(t, k + 2,
                   -Round(Mul(Mul(term, t), t), k * (k + 1)),
                   acc + term)

\* the argument is reduced by whole turns of 2*pi = 6.283185307 and then to
\* the first quadrant
np_cos(t) ==
    LET TwoPi == 6283185
        turns == Abs(t) \div TwoPi
        r == Abs((Abs(t) % TwoPi) - (turns * 307) \div 1000)
        s == IF 2 * r > TwoPi THEN TwoPi - r ELSE r
    IN  IF 4 * s > TwoPi THEN -CosSeries(TwoPi \div 2 - s, 1, SCALE, 0)
        ELSE CosSeries(s, 1, SCALE, 0)

----------------------------------------------------------------------------
(* Python argument values: a type tag and a payload *)

PyNone == [t |-> "NoneType", v |-> 0]
PyInt(n) == [t |-> "int", v |-> n]
PyBool(n) == [t |-> "bool", v |-> n]
PyFloat(n) == [t |-> "float", v |-> n]

\* bool is a subclass of int
isinstance_int(p) == p.t \in {"int", "bool"}
isinstance_bool(p) == p.t = "bool"
isinstance_float(p) == p.t = "float"

----------------------------------------------------------------------------
(* Series and the heap of value buffers *)

NoSeries == [none |-> TRUE, values |-> 0, index |-> <<>>,
             name |-> "", category |-> ""]

Series(ref, index) == [none |-> FALSE, values |-> ref, index |-> index,
                       name |-> "", category |-> ""]

np_copy_alias(h, src) == [heap |-> h, ref |-> src]

np_copy(h, src) == [heap |-> Append(h, h[src]), ref |-> Len(h) + 1]

----------------------------------------------------------------------------
(* Argument validation, ssf lines 81-86 *)

DefaultLength == 20
DefaultPi == 3141590
DefaultSqrt2 == 1414000

valid_length_abs(length) ==
    IF isinstance_int(length) /\ length.v # 0 THEN Abs(length.v)
    ELSE DefaultLength

valid_length(length) ==
    IF isinstance_int(length) /\ length.v > 0 THEN length.v ELSE DefaultLength

valid_everget_truthy(everget) == everget.v # 0

valid_everget(everget) ==
    IF isinstance_bool(everget) THEN everget.v # 0 ELSE FALSE

valid_pi(pi) == IF isinstance_float(pi) /\ pi.v > 0 THEN pi.v ELSE DefaultPi

valid_sqrt2(sqrt2) ==
    IF isinstance_float(sqrt2) /\ sqrt2.v > 0 THEN sqrt2.v ELSE DefaultSqrt2

\* pandas_ta.utils.verify_series: the series if it is one and has at least
\* min_length samples, otherwise None
verify_series(h, series, min_length) ==
    IF series.none \/ Len(h[series.values]) < min_length THEN NoSeries
    ELSE series

\* pandas_ta.utils.get_offset: an int, otherwise zero
get_offset(x) == IF isinstance_int(x) THEN x.v ELSE 0

checked_close_no_minimum(h, close, length) == verify_series(h, close, 0)

\* line 85: the series is checked against the length in effect
checked_close(h, close, length) == verify_series(h, close, length)

----------------------------------------------------------------------------
(* The kernels *)

NoFrame == [x |-> 0, n |-> 0, pi |-> 0, sqrt2 |-> 0, result |-> 0, m |-> 0,
            a |-> 0, b |-> 0, c |-> 0]

\* np_ssf lines 16-19: the frame before the loop.  Line 16 evaluates
\* sqrt2 / n before np.copy(x): for n = 0 it raises ZeroDivisionError.
np_ssf_enter(h, x, n, pi, sqrt2) ==
    IF n = 0 THEN [raised |-> TRUE, heap |-> h, fr |-> NoFrame] ELSE
    LET cp == np_copy(h, x)
        ratio == Round(sqrt2, n)
        \* 180 * ratio, divided once: the quotient's rounding is not
        \* multiplied by 180
        turn == Round(180 * sqrt2, n)
        a == np_exp(-Mul(pi, ratio))
        b == Mul(2 * a, np_cos(turn))
        c == Mul(a, a) - b + SCALE
    IN  [raised |-> FALSE, heap |-> cp.heap,
         fr |-> [x |-> x, n |-> n, pi |-> pi, sqrt2 |-> sqrt2,
                 result |-> cp.ref, m |-> Len(h[x]),
                 a |-> a, b |-> b, c |-> c]]

\* np_ssf_everget lines 33-35; line 33 divides by n before np.copy(x)
np_ssf_everget_enter(h, x, n, pi, sqrt2) ==
    IF n = 0 THEN [raised |-> TRUE, heap |-> h, fr |-> NoFrame] ELSE
    LET cp == np_copy(h, x)
        arg == Round(Mul(pi, sqrt2), n)
        a == np_exp(-arg)
        b == Mul(2 * a, np_cos(arg))
    IN  [raised |-> FALSE, heap |-> cp.heap,
         fr |-> [x |-> x, n |-> n, pi |-> pi, sqrt2 |-> sqrt2,
                 result |-> cp.ref, m |-> Len(h[x]),
                 a |-> a, b |-> b, c |-> 0]]

\* the value the recurrence assigns to result[i]
recurrence_raw(xs, res, c, a, b, i) ==
    FSub(FAdd(FHalf(FScale(c, FAdd(At(xs, i), At(xs, i - 1)))),
              FScale(b, At(xs, i - 1))),
         FScale(Mul(a, a), At(xs, i - 2)))

recurrence(xs, res, c, a, b, i) ==
    FSub(FAdd(FHalf(FScale(c, FAdd(At(xs, i), At(xs, i - 1)))),
              FScale(b, At(res, i - 1))),
         FScale(Mul(a, a), At(res, i - 2)))

\* np_ssf lines 22-23: one pass of the loop body
np_ssf_body(h, fr, i) ==
    [h EXCEPT ![fr.result] =
        Put(@, i, recurrence(h[fr.x], h[fr.result],
                             fr.c, fr.a, fr.b, i))]

\* np_ssf_everget lines 38-39
np_ssf_everget_body(h, fr, i) ==
    [h EXCEPT ![fr.result] =
        Put(@, i, recurrence(h[fr.x], h[fr.result],
                             Mul(fr.a, fr.a) - fr.b + SCALE,
                             fr.a, fr.b, i))]

RECURSIVE np_ssf_loop(_, _, _)
np_ssf_loop(h, fr, i) ==
    IF i >= fr.m THEN h ELSE np_ssf_loop(np_ssf_body(h, fr, i), fr, i + 1)

RECURSIVE np_ssf_everget_loop(_, _, _)
np_ssf_everget_loop(h, fr, i) ==
    IF i >= fr.m THEN h
    ELSE np_ssf_everget_loop(np_ssf_everget_body(h, fr, i), fr, i + 1)

np_ssf(h, x, n, pi, sqrt2) ==
    LET e == np_ssf_enter(h, x, n, pi, sqrt2)
    IN  IF e.raised THEN [raised |-> TRUE, heap |-> e.heap, ref |-> 0]
        ELSE [raised |-> FALSE, heap |-> np_ssf_loop(e.heap, e.fr, 2),
              ref |-> e.fr.result]

np_ssf_everget(h, x, n, pi, sqrt2) ==
    LET e == np_ssf_everget_enter(h, x, n, pi, sqrt2)
    IN  IF e.raised THEN [raised |-> TRUE, heap |-> e.heap, ref |-> 0]
        ELSE [raised |-> FALSE, heap |-> np_ssf_everget_loop(e.heap, e.fr, 2),
              ref |-> e.fr.result]

----------------------------------------------------------------------------
(* The driver's post-processing, ssf lines 96-110 *)

\* line 92-95: which kernel the driver calls
dispatch(everget) == IF everget THEN "np_ssf_everget" ELSE "np_ssf"

shifted_values_backward(vals, periods) ==
    [j \in 1..Len(vals) |->
        IF j + periods \in 1..Len(vals) THEN vals[j + periods] ELSE NaN]

shifted_values_truncating(vals, periods) ==
    IF Abs(periods) >= Len(vals) THEN <<>>
    ELSE IF periods >= 0 THEN SubSeq(vals, 1, Len(vals) - periods)
    ELSE SubSeq(vals, 1 - periods, Len(vals))

\* Series.shift(periods) on the values: position j takes the value of
\* position j - periods, NaN where there is none
shifted_values(vals, periods) ==
    [j \in 1..Len(vals) |->
        IF j - periods \in 1..Len(vals) THEN vals[j - periods] ELSE NaN]

\* line 100: ssf.shift(offset) builds a new series on the same index
shift(h, s, periods) ==
    [heap |-> Append(h, shifted_values(h[s.values], periods)),
     series |-> [s EXCEPT !.values = Len(h) + 1]]

\* line 99-100
apply_offset(h, s, offset) ==
    IF offset # 0 THEN shift(h, s, offset) ELSE [heap |-> h, series |-> s]

filled_value(vals, value) ==
    [j \in 1..Len(vals) |-> IF vals[j].nan THEN value ELSE vals[j]]

RECURSIVE ffill(_, _)
ffill(vals, j) ==
    IF j > Len(vals) THEN vals
    ELSE IF vals[j].nan /\ j > 1
         THEN ffill([vals EXCEPT ![j] = vals[j - 1]], j + 1)
         ELSE ffill(vals, j + 1)

RECURSIVE bfill(_, _)
bfill(vals, j) ==
    IF j < 1 THEN vals
    ELSE IF vals[j].nan /\ j < Len(vals)
         THEN bfill([vals EXCEPT ![j] = vals[j + 1]], j - 1)
         ELSE bfill(vals, j - 1)

\* the fill methods Series.fillna accepts; any other raises ValueError
FfillMethods == {"ffill", "pad"}
BfillMethods == {"bfill", "backfill"}

filled_method(vals, method) ==
    IF method \in FfillMethods THEN ffill(vals, 1) ELSE bfill(vals, Len(vals))

\* Series.fillna(None) raises ValueError
fillna_raises(kwargs) == kwargs.has_fillna /\ kwargs.fillna = PyNone

fill_method_raises(kwargs) ==
    /\ kwargs.has_fill_method
    /\ kwargs.fill_method \notin FfillMethods \cup BfillMethods

handle_fills_unshifted(h, s, kwargs) ==
    IF fillna_raises(kwargs) \/ fill_method_raises(kwargs)
    THEN [raised |-> TRUE, heap |-> h]
    ELSE [raised |-> FALSE,
          heap |-> IF kwargs.has_fillna
                   THEN [h EXCEPT ![2] = filled_value(@, F(kwargs.fillna.v))]
                   ELSE h]

\* lines 103-106: both fills write into the series' own buffer
handle_fills(h, s, kwargs) ==
    IF fillna_raises(kwargs) THEN [raised |-> TRUE, heap |-> h] ELSE
    LET h1 == IF kwargs.has_fillna
              THEN [h EXCEPT ![s.values] =
                       filled_value(@, F(kwargs.fillna.v))]
              ELSE h
    IN  IF fill_method_raises(kwargs) THEN [raised |-> TRUE, heap |-> h1]
        ELSE [raised |-> FALSE,
              heap |-> IF kwargs.has_fill_method
                       THEN [h1 EXCEPT ![s.values] =
                                filled_method(@, kwargs.fill_method)]
                       ELSE h1]

series_name_unmarked(everget, length) == "SSF_" \o ToString(length)

\* line 109
series_name(everget, length) ==
    "SSF" \o (IF everget THEN "e" ELSE "") \o "_" \o ToString(length)

\* lines 109-110
name_and_category(s, everget, length) ==
    [s EXCEPT !.name = series_name(everget, length), !.category = "overlap"]

----------------------------------------------------------------------------
(* One whole call of ssf, lines 81-112 *)

NoKwargs == [has_fillna |-> FALSE, fillna |-> PyNone,
             has_fill_method |-> FALSE, fill_method |-> ""]

ssf(h, close_, length_, everget_, pi_, sqrt2_, offset_, kwargs) ==
    LET len == valid_length(length_)
        evg == valid_everget(everget_)
        p == valid_pi(pi_)
        q == valid_sqrt2(sqrt2_)
        cl == checked_close(h, close_, len)
        off == get_offset(offset_)
    IN  IF cl.none THEN [raised |-> FALSE, heap |-> h, ret |-> NoSeries]
        ELSE LET k == IF dispatch(evg) = "np_ssf_everget"
                      THEN np_ssf_everget(h, cl.values, len, p, q)
                      ELSE np_ssf(h, cl.values, len, p, q)
                 s0 == Series(k.ref, cl.index)
                 sh == apply_offset(k.heap, s0, off)
                 hf == handle_fills(sh.heap, sh.series, kwargs)
             IN  IF k.raised
                 THEN [raised |-> TRUE, heap |-> k.heap, ret |-> NoSeries]
                 ELSE IF hf.raised
                 THEN [raised |-> TRUE, heap |-> hf.heap, ret |-> NoSeries]
                 ELSE [raised |-> FALSE, heap |-> hf.heap,
                       ret |-> name_and_category(sh.series, evg, len)]

\* the samples of a returned series
Values(r) == r.heap[r.ret.values]

----------------------------------------------------------------------------
(* The inputs of a call *)

MaxLen == 3
ExtraLen == 1
MaxOffset == 2

Samples == {F(SCALE), NaN}

RECURSIVE SeqsOf(_, _)
SeqsOf(S, n) ==
    IF n = 0 THEN {<<>>}
    ELSE LET shorter == SeqsOf(S, n - 1)
         IN  shorter \cup {Append(q, e) : q \in {r \in shorter : Len(r) = n - 1},
                                          e \in S}

\* a series long enough for the default length
LongSamples == [j \in 1..(DefaultLength + ExtraLen) |-> F(((j * j) % 3) * SCALE)]

InputSamples == SeqsOf(Samples, MaxLen) \cup {LongSamples}

IndexOf(m) == [j \in 1..m |-> 100 + j]

LengthArgs == {PyNone, PyInt(-5), PyInt(0), PyInt(2), PyInt(3),
               PyInt(DefaultLength), PyFloat(2 * SCALE), PyBool(1)}
EvergetArgs == {PyBool(0), PyBool(1), PyInt(1)}
PiArgs == {PyFloat(3 * SCALE), PyFloat(-3 * SCALE)}
Sqrt2Args == {PyFloat((3 * SCALE) \div 2), PyInt(2)}
KernelN == {-DefaultLength, 0, DefaultLength}
KernelPi == {DefaultPi, -DefaultPi}
KernelSqrt2 == {DefaultSqrt2, -DefaultSqrt2}
OffsetArgs == {PyNone} \cup {PyInt(k) : k \in -MaxOffset..MaxOffset}
KwargsArgs ==
    {NoKwargs,
     [NoKwargs EXCEPT !.has_fillna = TRUE, !.fillna = PyFloat(0)],
     [NoKwargs EXCEPT !.has_fillna = TRUE, !.fillna = PyNone],
     [NoKwargs EXCEPT !.has_fill_method = TRUE, !.fill_method = "pad"],
     [NoKwargs EXCEPT !.has_fill_method = TRUE, !.fill_method = "bfill"],
     [NoKwargs EXCEPT !.has_fill_method = TRUE, !.fill_method = "nearest"],
     [NoKwargs EXCEPT !.has_fillna = TRUE, !.fillna = PyFloat(0),
                      !.has_fill_method = TRUE, !.fill_method = "bfill"]}

----------------------------------------------------------------------------
(* The call as a state machine *)

VARIABLES
    entry,      \* the function the caller calls: ssf or a kernel
    args,       \* the arguments as the caller passed them, and the samples
                \* the caller's series holds when the call is made
    heap,       \* the value buffers; buffer 1 is the caller's close.values
    pc,         \* where the call is
    length, everget, pi, sqrt2, offset, close,  \* ssf's locals after line 86
    kernel,     \* the kernel that was called, "" before
    fr,         \* the kernel's locals x, result, m, a, b, c
    i,          \* the kernel's loop counter
    ssf_out,    \* ssf's local ssf from line 96 on
    ret         \* what the call returned

vars == <<entry, args, heap, pc, length, everget, pi, sqrt2, offset, close,
          kernel, fr, i, ssf_out, ret>>

\* ssf(close, length, everget, pi, sqrt2, offset, **kwargs)
InitSsf ==
    /\ entry = "ssf"
    /\ \E xs \in InputSamples, is_series \in BOOLEAN :
          /\ is_series \/ xs = <<>>
          /\ heap = <<xs>>
          /\ \E l \in LengthArgs, e \in EvergetArgs, p \in PiArgs,
                q \in Sqrt2Args, o \in OffsetArgs, kw \in KwargsArgs :
                args = [samples |-> xs,
                        close |-> IF is_series THEN Series(1, IndexOf(Len(xs)))
                                  ELSE NoSeries,
                        length |-> l, everget |-> e, pi |-> p, sqrt2 |-> q,
                        offset |-> o, kwargs |-> kw]

\* np_ssf(x, n, pi, sqrt2) or np_ssf_everget(x, n, pi, sqrt2), called with
\* an array, an int and two floats of any sign
InitKernel ==
    /\ entry \in {"np_ssf", "np_ssf_everget"}
    /\ \E xs \in InputSamples :
          /\ heap = <<xs>>
          /\ \E n \in KernelN, p \in KernelPi, q \in KernelSqrt2 :
                args = [samples |-> xs, close |-> NoSeries,
                        length |-> PyInt(n), everget |-> PyNone,
                        pi |-> PyFloat(p), sqrt2 |-> PyFloat(q),
                        offset |-> PyNone, kwargs |-> NoKwargs]

Init ==
    /\ InitSsf \/ InitKernel
    /\ pc = "call"
    /\ length = 0 /\ everget = FALSE /\ pi = 0 /\ sqrt2 = 0 /\ offset = 0
    /\ close = NoSeries
    /\ kernel = "" /\ fr = NoFrame /\ i = 0
    /\ ssf_out = NoSeries /\ ret = NoSeries

\* lines 81-88
Validate ==
    /\ pc = "call" /\ entry = "ssf"
    /\ length' = valid_length(args.length)
    /\ everget' = valid_everget(args.everget)
    /\ pi' = valid_pi(args.pi)
    /\ sqrt2' = valid_sqrt2(args.sqrt2)
    /\ close' = checked_close(heap, args.close, length')
    /\ offset' = get_offset(args.offset)
    /\ pc' = IF close'.none THEN "done" ELSE "calc"
    /\ UNCHANGED <<entry, args, heap, kernel, fr, i, ssf_out, ret>>

\* lines 91, 95 and 16-19
Call_np_ssf ==
    /\ pc = "calc"
    /\ dispatch(everget) = "np_ssf"
    /\ LET e == np_ssf_enter(heap, close.values, length, pi, sqrt2)
       IN  /\ heap' = e.heap /\ fr' = e.fr
           /\ pc' = IF e.raised THEN "raised" ELSE "loop"
           /\ i' = IF e.raised THEN i ELSE 2
    /\ kernel' = "np_ssf"
    /\ UNCHANGED <<entry, args, length, everget, pi, sqrt2, offset, close,
                   ssf_out, ret>>

\* lines 91, 93 and 33-35
Call_np_ssf_everget ==
    /\ pc = "calc"
    /\ dispatch(everget) = "np_ssf_everget"
    /\ LET e == np_ssf_everget_enter(heap, close.values, length, pi, sqrt2)
       IN  /\ heap' = e.heap /\ fr' = e.fr
           /\ pc' = IF e.raised THEN "raised" ELSE "loop"
           /\ i' = IF e.raised THEN i ELSE 2
    /\ kernel' = "np_ssf_everget"
    /\ UNCHANGED <<entry, args, length, everget, pi, sqrt2, offset, close,
                   ssf_out, ret>>

\* np_ssf called by the caller itself: lines 12-19
Direct_np_ssf ==
    /\ pc = "call" /\ entry = "np_ssf"
    /\ LET e == np_ssf_enter(heap, 1, args.length.v, args.pi.v, args.sqrt2.v)
       IN  /\ heap' = e.heap /\ fr' = e.fr
           /\ pc' = IF e.raised THEN "raised" ELSE "loop"
           /\ i' = IF e.raised THEN i ELSE 2
    /\ kernel' = "np_ssf"
    /\ UNCHANGED <<entry, args, length, everget, pi, sqrt2, offset, close,
                   ssf_out, ret>>

\* np_ssf_everget called by the caller itself: lines 29-35
Direct_np_ssf_everget ==
    /\ pc = "call" /\ entry = "np_ssf_everget"
    /\ LET e == np_ssf_everget_enter(heap, 1, args.length.v, args.pi.v,
                                     args.sqrt2.v)
       IN  /\ heap' = e.heap /\ fr' = e.fr
           /\ pc' = IF e.raised THEN "raised" ELSE "loop"
           /\ i' = IF e.raised THEN i ELSE 2
    /\ kernel' = "np_ssf_everget"
    /\ UNCHANGED <<entry, args, length, everget, pi, sqrt2, offset, close,
                   ssf_out, ret>>

\* lines 21-23
Loop_np_ssf ==
    /\ pc = "loop" /\ kernel = "np_ssf"
    /\ i < fr.m
    /\ heap' = np_ssf_body(heap, fr, i)
    /\ i' = i + 1
    /\ UNCHANGED <<entry, args, pc, length, everget, pi, sqrt2, offset, close,
                   kernel, fr, ssf_out, ret>>

\* lines 37-39
Loop_np_ssf_everget ==
    /\ pc = "loop" /\ kernel = "np_ssf_everget"
    /\ i < fr.m
    /\ heap' = np_ssf_everget_body(heap, fr, i)
    /\ i' = i + 1
    /\ UNCHANGED <<entry, args, pc, length, everget, pi, sqrt2, offset, close,
                   kernel, fr, ssf_out, ret>>

\* lines 25 / 41: the kernel returns result to the caller
DirectReturn ==
    /\ pc = "loop" /\ entry # "ssf"
    /\ i >= fr.m
    /\ pc' = "returned"
    /\ UNCHANGED <<entry, args, heap, length, everget, pi, sqrt2, offset,
                   close, kernel, fr, i, ssf_out, ret>>

\* lines 25 / 41 and 96
KernelReturn ==
    /\ pc = "loop" /\ entry = "ssf"
    /\ i >= fr.m
    /\ ssf_out' = Series(fr.result, close.index)
    /\ pc' = "offset"
    /\ UNCHANGED <<entry, args, heap, length, everget, pi, sqrt2, offset, close,
                   kernel, fr, i, ret>>

\* lines 99-100
Offset ==
    /\ pc = "offset"
    /\ LET sh == apply_offset(heap, ssf_out, offset)
       IN  heap' = sh.heap /\ ssf_out' = sh.series
    /\ pc' = "fill"
    /\ UNCHANGED <<entry, args, length, everget, pi, sqrt2, offset, close,
                   kernel, fr, i, ret>>

\* lines 103-106
Fill ==
    /\ pc = "fill"
    /\ LET hf == handle_fills(heap, ssf_out, args.kwargs)
       IN  /\ heap' = hf.heap
           /\ pc' = IF hf.raised THEN "raised" ELSE "name"
    /\ UNCHANGED <<entry, args, length, everget, pi, sqrt2, offset, close,
                   kernel, fr, i, ssf_out, ret>>

\* lines 109-112
NameAndReturn ==
    /\ pc = "name"
    /\ ssf_out' = name_and_category(ssf_out, everget, length)
    /\ ret' = ssf_out'
    /\ pc' = "done"
    /\ UNCHANGED <<entry, args, heap, length, everget, pi, sqrt2, offset, close,
                   kernel, fr, i>>

Next ==
    \/ Validate
    \/ Call_np_ssf
    \/ Call_np_ssf_everget
    \/ Direct_np_ssf
    \/ Direct_np_ssf_everget
    \/ DirectReturn
    \/ Loop_np_ssf
    \/ Loop_np_ssf_everget
    \/ KernelReturn
    \/ Offset
    \/ Fill
    \/ NameAndReturn

Spec == Init /\ [][Next]_vars

----------------------------------------------------------------------------
(* Properties *)

m0 == Len(args.samples)
Returned == pc = "done" /\ ~ret.none
NoFill == ~args.kwargs.has_fillna /\ ~args.kwargs.has_fill_method
HasNaN(vals) == \E j \in 1..Len(vals) : vals[j].nan
PositiveInt(p) == p.t \in {"int", "bool"} /\ p.v > 0
PositiveFloat(p) == p.t = "float" /\ p.v > 0

\* Python's == on floats: NaN equals nothing, itself included
FEq(x, y) == ~x.nan /\ ~y.nan /\ x.v = y.v

SeedsKept(vals) ==
    /\ FEq(At(vals, 0), At(args.samples, 0))
    /\ FEq(At(vals, 1), At(args.samples, 1))

NumberSeeds == ~At(args.samples, 0).nan /\ ~At(args.samples, 1).nan

\* C1: seed identity, as stated.  For an input of at least two samples whose
\* first two are numbers, a kernel called with any n, pi and sqrt2 runs its
\* loop and returns a result with result[0] == x[0] and result[1] == x[1],
\* the loop never writing positions 0 and 1; and a call of ssf with offset 0
\* and no fill returns a series whose positions 0 and 1 hold these values.
\* (A NaN seed is copied as well, but compares unequal to itself.)
C1_SeedIdentityForEveryN ==
    /\ (entry # "ssf" /\ pc # "call" /\ m0 >= 2 /\ NumberSeeds) =>
          /\ pc \in {"loop", "returned"}
          /\ SeedsKept(heap[fr.result])
    /\ (Returned /\ offset = 0 /\ NoFill /\ m0 >= 2 /\ NumberSeeds) =>
          SeedsKept(heap[ret.values])

\* a kernel called with n = 0 on an input of two numbers or more has raised
\* ZeroDivisionError: it made no copy and returned no result
C1_Witness ==
    /\ pc = "raised" /\ entry \in {"np_ssf", "np_ssf_everget"}
    /\ args.length.v = 0 /\ m0 >= 2 /\ NumberSeeds
    /\ fr = NoFrame /\ heap = <<args.samples>>

\* C2: length invariance.  Every series ssf returns has as many samples as
\* the input and the input's index, whatever the variant, the offset and
\* the fill arguments; and a series is returned only for m >= length.
C2_LengthInvariance ==
    Returned =>
        /\ Len(heap[ret.values]) = m0
        /\ ret.index = args.close.index
        /\ Len(ret.index) = m0
        /\ m0 >= length

C2_Witness ==
    /\ Returned /\ offset # 0 /\ args.kwargs.has_fillna /\ m0 >= 3
    /\ Len(heap[ret.values]) = m0

\* C3: absent-input propagation.  Once the arguments are validated, a call
\* on a series shorter than the length in effect has returned None: no
\* kernel was entered, no buffer was allocated, no series was built and
\* nothing was named.
C3_AbsentInput ==
    (entry = "ssf" /\ pc # "call" /\ m0 < length) =>
        /\ pc = "done" /\ ret.none
        /\ kernel = "" /\ fr = NoFrame
        /\ ssf_out = NoSeries
        /\ heap = <<args.samples>>

C3_Witness ==
    /\ pc = "done" /\ ~args.close.none /\ m0 > 0 /\ m0 < length /\ ret.none
    /\ PositiveInt(args.length)

\* C4: default clamping.  A call whose length argument is not a positive
\* integer ends as the call with length=20 and otherwise the same arguments:
\* both absent, or the same name, category, index and values.
C4_DefaultClamping ==
    (entry = "ssf" /\ pc \in {"done", "raised"}
        /\ ~PositiveInt(args.length)) =>
        LET r == ssf(<<args.samples>>, args.close, PyInt(20), args.everget,
                     args.pi, args.sqrt2, args.offset, args.kwargs)
        IN  /\ r.raised <=> pc = "raised"
            /\ ret = r.ret
            /\ ~ret.none => heap[ret.values] = Values(r)

C4_Witness ==
    /\ Returned /\ args.length = PyInt(-5)
    /\ ret.name = "SSF_20"
    /\ m0 >= 20

\* C5: offset shift.  With no fill argument, the series returned for
\* offset=k holds at position i the value the call with offset=0 returns at
\* position i-k, and NaN where i-k is no position; the index is that of the
\* unshifted result; for k = 0 the kernel's result is returned as it is.
C5_OffsetShift ==
    (Returned /\ NoFill /\ args.offset.t = "int") =>
        LET k == args.offset.v
            base == ssf(<<args.samples>>, args.close, args.length,
                        args.everget, args.pi, args.sqrt2, PyInt(0), NoKwargs)
        IN  /\ \A j \in 0..(m0 - 1) :
                  At(heap[ret.values], j) =
                      IF j - k \in 0..(m0 - 1) THEN At(Values(base), j - k)
                      ELSE NaN
            /\ ret.index = base.ret.index
            /\ k = 0 => ret.values = fr.result /\ Len(heap) = 2

C5_Witness ==
    /\ Returned /\ NoFill /\ args.offset = PyInt(2) /\ m0 = 3
    /\ ~HasNaN(args.samples)
    /\ At(heap[ret.values], 0).nan /\ At(heap[ret.values], 1).nan
    /\ At(heap[ret.values], 2) = At(args.samples, 0)

\* C6: naming.  A returned series is named SSFe_<n> if the everget argument
\* is the boolean true and SSF_<n> otherwise, n being the length the kernel
\* was called with (20 for an invalid length argument); its category is
\* "overlap"; and the name carries the e exactly when np_ssf_everget
\* computed the values.
C6_Naming ==
    Returned =>
        /\ ret.name = IF args.everget = PyBool(1)
                      THEN "SSFe_" \o ToString(fr.n)
                      ELSE "SSF_" \o ToString(fr.n)
        /\ ret.category = "overlap"
        /\ ~PositiveInt(args.length) => ret.name \in {"SSF_20", "SSFe_20"}
        /\ PositiveInt(args.length) => fr.n = args.length.v
        /\ kernel = "np_ssf_everget" <=>
               ret.name \in {"SSFe_" \o ToString(n) : n \in 1..20}
        /\ kernel = "np_ssf" <=>
               ret.name \in {"SSF_" \o ToString(n) : n \in 1..20}

C6_Witness ==
    /\ Returned /\ ret.name = "SSFe_3" /\ kernel = "np_ssf_everget"
    /\ args.length = PyInt(3)

\* C7: invalid parameter values are never rejected.  A call on a usable
\* series is not ended by validation and returns a series whatever everget,
\* pi and sqrt2 are: it raises exactly when Series.fillna rejects the fill
\* arguments, and then only after the kernel has returned.  It runs
\* np_ssf_everget only if everget is the boolean
\* true and np_ssf otherwise; pi and sqrt2 are the arguments if those are
\* positive floats and 3.14159 and 1.414 otherwise; and the kernel is
\* entered with n > 0, pi > 0 and sqrt2 > 0.
C7_PermissiveDefaults ==
    (entry = "ssf" /\ pc # "call" /\ ~args.close.none /\ m0 >= length) =>
        /\ pc = "raised" =>
              /\ fillna_raises(args.kwargs) \/ fill_method_raises(args.kwargs)
              /\ kernel # "" /\ i >= fr.m
        /\ pc \in {"name", "done"} =>
              ~(fillna_raises(args.kwargs) \/ fill_method_raises(args.kwargs))
        /\ ~close.none
        /\ pc = "done" => ~ret.none
        /\ everget = (args.everget = PyBool(1))
        /\ pi = IF PositiveFloat(args.pi) THEN args.pi.v ELSE DefaultPi
        /\ sqrt2 = IF PositiveFloat(args.sqrt2) THEN args.sqrt2.v
                   ELSE DefaultSqrt2
        /\ kernel # "" =>
              /\ kernel = IF args.everget = PyBool(1) THEN "np_ssf_everget"
                          ELSE "np_ssf"
              /\ fr.n > 0 /\ fr.pi > 0 /\ fr.sqrt2 > 0
              /\ fr.pi = pi /\ fr.sqrt2 = sqrt2

C7_Witness ==
    /\ Returned /\ args.everget = PyInt(1) /\ kernel = "np_ssf"
    /\ args.pi = PyFloat(-3 * SCALE) /\ fr.pi = DefaultPi
    /\ args.sqrt2 = PyInt(2) /\ fr.sqrt2 = DefaultSqrt2

\* C8: recurrence.  While a kernel runs and when it has returned, every
\* position j in [2, i) it has passed holds
\*   0.5*(a*a - b + 1)*(x[j] + x[j-1]) + b*result[j-1] - a*a*result[j-2]
\* with a, b the frame's coefficients, x the unfiltered input and
\* result[j-1], result[j-2] the values the result array holds; the
\* positions from i on still hold the input's samples.
C8_Recurrence ==
    (pc \in {"loop", "offset", "returned"}) =>
        LET res == heap[fr.result]
            x == args.samples
            c == Mul(fr.a, fr.a) - fr.b + SCALE
        IN  /\ i >= 2
            /\ pc \in {"offset", "returned"} => i >= fr.m
            /\ \A j \in 2..(fr.m - 1) :
                  IF j < i
                  THEN At(res, j) =
                       FSub(FAdd(FHalf(FScale(c, FAdd(At(x, j),
                                                      At(x, j - 1)))),
                                 FScale(fr.b, At(res, j - 1))),
                            FScale(Mul(fr.a, fr.a), At(res, j - 2)))
                  ELSE At(res, j) = At(x, j)

\* a kernel has returned a result whose position 3 was computed from a
\* filtered position 2 that differs from the input's
C8_Witness ==
    /\ pc = "offset" /\ fr.m >= 4
    /\ ~HasNaN(args.samples)
    /\ At(heap[fr.result], 2) # At(args.samples, 2)
    /\ At(heap[fr.result], 3) # At(args.samples, 3)

\* C9: fill after shift.  For a call with a fillna value and a non-zero
\* offset, the positions the shift left without a value hold the fill value
\* in the returned series, and if the input has no NaN the returned series
\* has none; with no fill argument those positions are NaN.
C9_FillAfterShift ==
    (Returned /\ offset # 0) =>
        LET vals == heap[ret.values]
            vacated == {j \in 0..(m0 - 1) : j - offset \notin 0..(m0 - 1)}
        IN  /\ args.kwargs.has_fillna =>
                  /\ \A j \in vacated : At(vals, j) = F(args.kwargs.fillna.v)
                  /\ ~HasNaN(args.samples) => ~HasNaN(vals)
            /\ NoFill => \A j \in vacated : At(vals, j).nan

C9_Witness ==
    /\ Returned /\ offset = 1 /\ args.kwargs.has_fillna /\ m0 >= 3
    /\ ~HasNaN(args.samples)
    /\ At(heap[ret.values], 0) = F(args.kwargs.fillna.v)
    /\ At(heap[ret.values], 1) = At(args.samples, 0)

\* C10: the input is never modified.  At every point of a call the caller's
\* buffer holds the samples it held when the call was made and the caller's
\* series has its index; the kernel's result is another buffer than its x,
\* and the series that is shifted, filled and returned is not on the
\* caller's buffer.
C10_InputUnmodified ==
    /\ heap[1] = args.samples
    /\ args.close.values \in {0, 1}
    /\ (kernel # "" /\ pc # "raised") => fr.x = 1 /\ fr.result # fr.x
    /\ ~ssf_out.none => ssf_out.values # 1
    /\ ~ret.none => ret.values # 1

\* a call with offset 0 has filled its result in place, and the result
\* differs from the input
C10_Witness ==
    /\ Returned /\ offset = 0 /\ args.kwargs.has_fillna
    /\ HasNaN(args.samples) /\ ~HasNaN(heap[ret.values])
    /\ heap[1] = args.samples

=============================================================================
